---- MODULE Spec2Model ----
(***************************************************************************)
(* RAG-pipeline-v2: the chunk synchronisation engine                       *)
(* (src/03_stage3_build_chroma.py) and the chunker that feeds it           *)
(* (src/03_stage2_chunk.py, src/common.py) as a state machine.             *)
(*                                                                         *)
(* One run of main() is a sequence of steps over the persisted Chroma      *)
(* collection: load and validate the chunk batch, dry-run return, reset of *)
(* the persist directory, get-or-create of the collection with the         *)
(* fingerprint guard, the append duplicate check, one step per embedding   *)
(* batch, and the manifest.  Runs follow each other on the same store.     *)
(*                                                                         *)
(* JSON scalars are strings (a chunk_index 0 is "0"); Python's None is the *)
(* value None; a dict is a function whose DOMAIN is its key set.           *)
(***************************************************************************)
EXTENDS Naturals, Integers, Sequences, FiniteSets, TLC

VARIABLES
    coll,        \* the collection args.collection in persist_dir, or NoColl
    hasUpsert,   \* hasattr(collection, "upsert"): the installed store's API
    pc,          \* position of the current run in main()
    args,        \* argparse namespace of the current run
    rows,        \* load_jsonl(chunks_path)
    k,           \* 1-based index of the next embedding batch
    total,       \* main's counter of records handed to the store
    embedLog,    \* model.encode calls of this run: the id list of each call
    writeLog,    \* collection.upsert/add calls of this run that returned: ids
    lookups,     \* collection.get calls of this run
    manifest,    \* run_manifest.json as written by this run, or None
    error,       \* the exception that ended this run, or None
    coll0,       \* history: coll when this run started
    prev,        \* history: how this run relates to the run before it
    note,        \* the source note, as stages 0 and 1 left it on disk
    chunker,     \* the chunker options that stay the same from run to run
    out_jsonl,   \* the chunk file 03_stage2_chunk.py wrote (args.out_jsonl)
    stage,       \* how far the note has gone through the pipeline
    edited,      \* history: the paragraph edited since the last chunking
    doc_sections,\* sections of the chunker run that is followed step by step
    doc_parts    \* its parts and parts_links, section by section

vars == <<coll, hasUpsert, pc, args, rows, k, total, embedLog, writeLog,
          lookups, manifest, error, coll0, prev, note, chunker, out_jsonl,
          stage, edited, doc_sections, doc_parts>>
\* what the chunking stage works on: a run of the sync engine leaves it alone
stage2vars ==
    <<note, chunker, out_jsonl, stage, edited, doc_sections, doc_parts>>

----------------------------------------------------------------------------
(* Values *)

None == "<None>"
\* a dict with no key; also stands for a metadata of None, which main() treats
\* the same way ("metadata or {}", "if m is not None", "if prev and ...")
NoMeta == [key \in {} |-> None]
EmptyRecords == [i \in {} |-> None]
\* persist_dir holds no collection of the name args.collection
NoColl == [exists |-> FALSE, metadata |-> NoMeta, records |-> EmptyRecords]
NoManifest == [written |-> FALSE]
NoError == [kind |-> None, detail |-> <<>>]

PIPELINE_VERSION == "v1"
STAGE3_VERSION == "v0.1"

CHROMA_META_KEYS ==
    {"doc_id", "chunk_id", "chunk_key", "chunk_hash", "chunk_anchor",
     "chunk_title", "heading_path_str", "chunk_index", "rel_path",
     "source_uri", "cleaned_text", "entry_date", "source_date",
     "source_hash", "content_hash", "embed_model", "embed_dim",
     "chunker_version", "doc_type", "sensitivity", "folder"}

required_keys ==
    <<"chunk_id", "chunk_key", "chunk_hash", "source_uri", "chunk_index",
      "cleaned_text">>

\* existing[:10] in the append error message
SampleLimit == 10
\* min(args.batch_size, 256) in the append lookup
FindBatchCap == 256
\* "if len(missing_meta) >= 5: break"
MissingCap == 5

Min(a, b) == IF a <= b THEN a ELSE b
Range(s) == {s[i] : i \in 1..Len(s)}
Prefix(s, n) == SubSeq(s, 1, Min(n, Len(s)))

\* m.get(key): the value, or None for an absent key
Get(m, key) == IF key \in DOMAIN m THEN m[key] ELSE None

RECURSIVE Flatten(_)
Flatten(ss) == IF ss = <<>> THEN <<>> ELSE Head(ss) \o Flatten(Tail(ss))

----------------------------------------------------------------------------
(* Text: Python's str and re operations that the chunker uses.  A text is a
   string; positions are 1-based here.  The operations recurse over matches
   and lines, never over single characters. *)

Ch(s, i) == SubSeq(s, i, i)
\* the characters \s matches among those the documents use
Whitespace == {" ", "\n", "\t"}
Lower ==
    [c \in {"A", "B", "C", "D", "E", "F", "G", "H", "I", "J", "K", "L", "M",
            "N", "O", "P", "Q", "R", "S", "T", "U", "V", "W", "X", "Y", "Z"} |->
        CASE c = "A" -> "a" [] c = "B" -> "b" [] c = "C" -> "c" [] c = "D" -> "d"
          [] c = "E" -> "e" [] c = "F" -> "f" [] c = "G" -> "g" [] c = "H" -> "h"
          [] c = "I" -> "i" [] c = "J" -> "j" [] c = "K" -> "k" [] c = "L" -> "l"
          [] c = "M" -> "m" [] c = "N" -> "n" [] c = "O" -> "o" [] c = "P" -> "p"
          [] c = "Q" -> "q" [] c = "R" -> "r" [] c = "S" -> "s" [] c = "T" -> "t"
          [] c = "U" -> "u" [] c = "V" -> "v" [] c = "W" -> "w" [] c = "X" -> "x"
          [] c = "Y" -> "y" [] c = "Z" -> "z"]
\* the characters \w matches
WordChars ==
    DOMAIN Lower \cup {Lower[c] : c \in DOMAIN Lower}
        \cup {"0", "1", "2", "3", "4", "5", "6", "7", "8", "9", "_"}

SetMin(S) == CHOOSE lo \in S : \A other \in S : lo <= other
SetMax(S) == CHOOSE hi \in S : \A other \in S : hi >= other

\* s[i:] and s[:i], i counted as in Python
From(s, i) == SubSeq(s, i + 1, Len(s))
Upto(s, i) == SubSeq(s, 1, i)
startswith(s, p) == Len(s) >= Len(p) /\ Upto(s, Len(p)) = p

\* the concatenation of the strings parts[lo..hi]
RECURSIVE Cat(_, _, _)
Cat(parts, lo, hi) ==
    IF lo > hi THEN ""
    ELSE IF lo = hi THEN parts[lo]
    ELSE Cat(parts, lo, (lo + hi) \div 2) \o Cat(parts, (lo + hi) \div 2 + 1, hi)

join(sep, parts) ==
    Cat([i \in 1..(2 * Len(parts) - 1) |->
            IF i % 2 = 1 THEN parts[(i + 1) \div 2] ELSE sep],
        1, 2 * Len(parts) - 1)

\* the length of the run of characters of cs (RunNot: outside cs) that starts
\* at position i of s
RunAt(s, i, cs) ==
    LET stops == {j \in i..Len(s) : Ch(s, j) \notin cs}
    IN  IF stops = {} THEN Len(s) - i + 1 ELSE SetMin(stops) - i
RunNotAt(s, i, cs) ==
    LET stops == {j \in i..Len(s) : Ch(s, j) \in cs}
    IN  IF stops = {} THEN Len(s) - i + 1 ELSE SetMin(stops) - i
Run(s, cs) == RunAt(s, 1, cs)

lstrip(s, chars) == From(s, Run(s, chars))
rstrip(s, chars) ==
    LET keep == {j \in 1..Len(s) : Ch(s, j) \notin chars}
    IN  IF keep = {} THEN "" ELSE Upto(s, SetMax(keep))
strip(s) == lstrip(rstrip(s, Whitespace), Whitespace)

\* the position of the first occurrence of sep in s at or after i, 0 for none
Find(s, sep, i) ==
    LET at == {j \in i..(Len(s) - Len(sep) + 1) :
                  SubSeq(s, j, j + Len(sep) - 1) = sep}
    IN  IF at = {} THEN 0 ELSE SetMin(at)

\* s.split(sep), from position i on: the pieces between the occurrences of
\* sep, found left to right
RECURSIVE SplitFrom(_, _, _)
SplitFrom(s, sep, i) ==
    LET at == Find(s, sep, i)
    IN  IF at = 0 THEN <<SubSeq(s, i, Len(s))>>
        ELSE <<SubSeq(s, i, at - 1)>> \o SplitFrom(s, sep, at + Len(sep))
split(s, sep) == SplitFrom(s, sep, 1)

\* s.splitlines(): as split on "\n", without the empty piece a final "\n" leaves
splitlines(s) ==
    LET parts == split(s, "\n")
    IN  IF parts[Len(parts)] = "" THEN SubSeq(parts, 1, Len(parts) - 1) ELSE parts

\* re.sub(pattern, repl, s) for a pattern that matches the runs of the
\* characters cs that are at least n long
SubRuns(s, cs, n, repl) ==
    LET starts == {j \in 1..Len(s) :
                      Ch(s, j) \in cs /\ (j = 1 \/ Ch(s, j - 1) \notin cs)}
        start(j) == SetMax({b \in starts : b <= j})
        out(j) == IF Ch(s, j) \notin cs \/ RunAt(s, start(j), cs) < n
                  THEN Ch(s, j)
                  ELSE IF j \in starts THEN repl ELSE ""
    IN  Cat([j \in 1..Len(s) |-> out(j)], 1, Len(s))

\* sha256 of a text, hex: equal digests for equal texts only
sha256_text(s) == "sha256(" \o s \o ")"

----------------------------------------------------------------------------
(* common.py: normalisation, links, sections *)

\* the code-fence marker; the model writes the backquote character as "~"
\* (a string of this language cannot hold a backquote)
FENCE == "~~~"

\* normalize_markdown_light: the loop over the lines, with the in_code flag
RECURSIVE NormalizeLines(_, _)
NormalizeLines(lines, in_code) ==
    IF lines = <<>> THEN <<>>
    ELSE LET line == Head(lines) IN
         IF startswith(strip(line), FENCE)
         THEN NormalizeLines(Tail(lines), ~in_code)
         ELSE IF ~in_code /\ startswith(lstrip(line, Whitespace), ">")
         THEN <<lstrip(From(lstrip(line, Whitespace), 1), Whitespace)>>
                  \o NormalizeLines(Tail(lines), in_code)
         ELSE <<rstrip(line, {"\n"})>> \o NormalizeLines(Tail(lines), in_code)

normalize_markdown_light(md) ==
    strip(SubRuns(join("\n", NormalizeLines(splitlines(md), FALSE)),
                  {"\n"}, 3, "\n\n"))
        \o "\n"

\* WIKILINK_RE matched at position i of s: the length of the match (0: no
\* match), group 1 and group 3 ("" when the alias part is absent)
WikilinkAt(s, i) ==
    LET no == [len |-> 0, target |-> "", alias |-> ""]
        open == SubSeq(s, i, i + 1) = "[["
        t == RunNotAt(s, i + 2, {"]", "|"})
        bar == Ch(s, i + 2 + t) = "|"
        a == IF bar THEN RunNotAt(s, i + 3 + t, {"]"}) ELSE 0
    IN  IF ~open \/ t = 0 THEN no
        ELSE IF a > 0 /\ SubSeq(s, i + 3 + t + a, i + 4 + t + a) = "]]"
        THEN [len |-> t + a + 5, target |-> SubSeq(s, i + 2, i + 1 + t),
              alias |-> SubSeq(s, i + 3 + t, i + 2 + t + a)]
        ELSE IF SubSeq(s, i + 2 + t, i + 3 + t) = "]]"
        THEN [len |-> t + 4, target |-> SubSeq(s, i + 2, i + 1 + t), alias |-> ""]
        ELSE no

\* WIKILINK_RE.sub(_repl, text) from position i on: <<new_text, out_links>>
RECURSIVE ReplaceFrom(_, _)
ReplaceFrom(text, i) ==
    LET at == Find(text, "[[", i)
        m == WikilinkAt(text, at)
    IN  IF at = 0 THEN <<SubSeq(text, i, Len(text)), <<>>>>
        ELSE IF m.len = 0
        THEN LET rest == ReplaceFrom(text, at + 1)
             IN  <<SubSeq(text, i, at) \o rest[1], rest[2]>>
        ELSE LET rest == ReplaceFrom(text, at + m.len)
                 target == strip(m.target)
                 alias == strip(m.alias)
                 rec == IF alias # "" THEN [target |-> target, alias |-> alias]
                        ELSE [target |-> target]
             IN  <<SubSeq(text, i, at - 1)
                       \o (IF alias # "" THEN alias ELSE target) \o rest[1],
                   <<rec>> \o rest[2]>>

replace_wikilinks_and_collect(text) == ReplaceFrom(text, 1)

\* HEADING_RE.match(line): the heading's level (0: no match) and its text
HeadingOf(line) ==
    LET lead == Run(line, Whitespace)
        hashes == Run(From(line, lead), {"#"})
        gap == Run(From(line, lead + hashes), Whitespace)
    IN  IF lead <= 3 /\ hashes \in 1..6 /\ gap >= 1
        THEN [level |-> hashes, title |-> From(line, lead + hashes + gap)]
        ELSE [level |-> 0, title |-> ""]

lower(s) ==
    Cat([j \in 1..Len(s) |->
            IF Ch(s, j) \in DOMAIN Lower THEN Lower[Ch(s, j)] ELSE Ch(s, j)],
        1, Len(s))

\* re.sub(r"[^\w\s-]", "", s)
KeepSlugChars(s) ==
    Cat([j \in 1..Len(s) |->
            IF Ch(s, j) \in WordChars \cup Whitespace \cup {"-"} THEN Ch(s, j)
            ELSE ""],
        1, Len(s))

slugify(s) ==
    LET s1 == lower(strip(s))
        s2 == KeepSlugChars(s1)
        s3 == SubRuns(s2, Whitespace \cup {"_"}, 1, "-")
        s4 == SubRuns(s3, {"-"}, 2, "-")
        s5 == lstrip(rstrip(s4, {"-"}), {"-"})
    IN  IF s5 # "" THEN s5 ELSE "section"

\* the heading levels present, in line order
RECURSIVE LevelsPresent(_)
LevelsPresent(lines) ==
    IF lines = <<>> THEN <<>>
    ELSE (IF HeadingOf(Head(lines)).level > 0
          THEN <<HeadingOf(Head(lines)).level>> ELSE <<>>)
             \o LevelsPresent(Tail(lines))

\* the loop of split_into_sections with flush(): <<anchor, title, lines>>
RECURSIVE SectionLoop(_, _, _, _)
SectionLoop(lines, target_level, current_title, current_lines) ==
    IF lines = <<>>
    THEN <<<<slugify(current_title), current_title, current_lines>>>>
    ELSE LET m == HeadingOf(Head(lines)) IN
         IF m.level > 0 /\ m.level = target_level
         THEN <<<<slugify(current_title), current_title, current_lines>>>>
                  \o SectionLoop(Tail(lines), target_level, strip(m.title), <<>>)
         ELSE SectionLoop(Tail(lines), target_level, current_title,
                          Append(current_lines, Head(lines)))

\* SectionTexts dropping the preamble section whatever it holds
RECURSIVE SectionTexts_NoPreamble(_)
SectionTexts_NoPreamble(sections) ==
    IF sections = <<>> THEN <<>>
    ELSE LET sec == Head(sections)
             txt == strip(join("\n", sec[3])) \o "\n"
         IN  (IF sec[1] = "preamble" THEN <<>>
              ELSE <<<<sec[1], sec[2], txt>>>>)
                 \o SectionTexts_NoPreamble(Tail(sections))

\* the (anchor, title, text) triples of the final loop
RECURSIVE SectionTexts(_)
SectionTexts(sections) ==
    IF sections = <<>> THEN <<>>
    ELSE LET sec == Head(sections)
             txt == strip(join("\n", sec[3])) \o "\n"
         IN  (IF sec[1] = "preamble" /\ strip(txt) = "" THEN <<>>
              ELSE <<<<sec[1], sec[2], txt>>>>)
                 \o SectionTexts(Tail(sections))

\* split_into_sections that always splits on the smallest level present
split_into_sections_MinLevel(body_md) ==
    LET lines == splitlines(body_md)
        levels_present == LevelsPresent(lines)
        txt == strip(join("\n", lines)) \o "\n"
        target_level == SetMin(Range(levels_present))
    IN  IF levels_present = <<>>
        THEN (IF strip(txt) # "" THEN <<<<"preamble", "preamble", txt>>>> ELSE <<>>)
        ELSE SectionTexts(SectionLoop(lines, target_level, "preamble", <<>>))

split_into_sections(body_md) ==
    LET lines == splitlines(body_md)
        levels_present == LevelsPresent(lines)
        txt == strip(join("\n", lines)) \o "\n"
        target_level == IF 2 \in Range(levels_present) THEN 2
                        ELSE SetMin(Range(levels_present))
    IN  IF levels_present = <<>>
        THEN (IF strip(txt) # "" THEN <<<<"preamble", "preamble", txt>>>> ELSE <<>>)
        ELSE SectionTexts(SectionLoop(lines, target_level, "preamble", <<>>))

----------------------------------------------------------------------------
(* 03_stage2_chunk.py: segmentation and identity assignment *)

CHUNKER_VERSION == "v0.1"

\* re.split(r"(?<=[.!?])\s+", s): the matches are the whitespace runs that
\* follow a '.', '!' or '?'
RECURSIVE SentencesFrom(_, _)
SentencesFrom(s, i) ==
    LET at == {j \in (i + 1)..Len(s) :
                  Ch(s, j) \in Whitespace /\ Ch(s, j - 1) \in {".", "!", "?"}}
        first == SetMin(at)
    IN  IF at = {} THEN <<SubSeq(s, i, Len(s))>>
        ELSE <<SubSeq(s, i, first - 1)>>
                 \o SentencesFrom(s, first + RunAt(s, first, Whitespace))
SentenceSplit(s) == SentencesFrom(s, 1)

\* Pack without the test of the buffer: it flushes whenever the next piece
\* would not fit, an empty buffer too
RECURSIVE Pack_FlushEmpty(_, _, _, _)
Pack_FlushEmpty(pieces, buf, cur, max_chars) ==
    IF pieces = <<>>
    THEN (IF buf # <<>> THEN <<join(" ", buf)>> ELSE <<>>)
    ELSE LET piece == Head(pieces) IN
         IF cur + Len(piece) + 1 > max_chars
         THEN <<join(" ", buf)>>
                  \o Pack_FlushEmpty(Tail(pieces), <<piece>>, Len(piece) + 1,
                                     max_chars)
         ELSE Pack_FlushEmpty(Tail(pieces), Append(buf, piece),
                              cur + Len(piece) + 1, max_chars)

\* lines 95-112: the texts the packer joins from the pieces of one paragraph
RECURSIVE Pack(_, _, _, _)
Pack(pieces, buf, cur, max_chars) ==
    IF pieces = <<>>
    THEN (IF buf # <<>> THEN <<join(" ", buf)>> ELSE <<>>)
    ELSE LET piece == Head(pieces) IN
         IF cur + Len(piece) + 1 > max_chars /\ buf # <<>>
         THEN <<join(" ", buf)>>
                  \o Pack(Tail(pieces), <<piece>>, Len(piece) + 1, max_chars)
         ELSE Pack(Tail(pieces), Append(buf, piece), cur + Len(piece) + 1,
                   max_chars)

\* one entry of parts and parts_links; para is the paragraph it comes from
Part(raw, para) ==
    LET r == replace_wikilinks_and_collect(raw)
    IN  [text |-> strip(r[1]) \o "\n", links |-> r[2], para |-> para]

\* line 79: [p.strip() for p in normalized.split("\n\n") if p.strip()]
RECURSIVE NonBlank(_)
NonBlank(ps) ==
    IF ps = <<>> THEN <<>>
    ELSE (IF strip(Head(ps)) # "" THEN <<strip(Head(ps))>> ELSE <<>>)
             \o NonBlank(Tail(ps))
paragraphs_raw(section_raw) ==
    NonBlank(split(normalize_markdown_light(section_raw), "\n\n"))

\* lines 88-112 for one paragraph
ParagraphParts(para_raw, para, max_chars) ==
    IF Len(para_raw) <= max_chars THEN <<Part(para_raw, para)>>
    ELSE LET packed == Pack(SentenceSplit(para_raw), <<>>, 0, max_chars)
         IN  [j \in 1..Len(packed) |-> Part(packed[j], para)]

\* lines 85-112: parts of one section
SectionParts(section_raw, max_chars) ==
    LET ps == paragraphs_raw(section_raw)
    IN  Flatten([p \in 1..Len(ps) |-> ParagraphParts(ps[p], p, max_chars)])

\* lines 63-67: the document-level fields
DocId(file) ==
    LET uuid == IF Get(file.meta, "uuid") = None THEN ""
                ELSE strip(file.meta["uuid"])
    IN  IF uuid # "" THEN uuid ELSE "sha256/24(" \o file.raw \o ")"

\* SectionRows with idx counted on from the rows out_jsonl already holds
SectionRows_Running(file, a, sec) ==
    LET parts == SectionParts(sec[3], a.max_chars)
        idx(j) == ToString(Len(out_jsonl) + j - 1)
    IN  [j \in 1..Len(parts) |->
            [text |-> parts[j].text,
             metadata |->
                [doc_id |-> DocId(file),
                 chunk_id |-> DocId(file) \o "::" \o sec[1] \o "::" \o idx(j),
                 chunk_anchor |-> sec[1],
                 chunk_title |-> sec[2],
                 chunk_index |-> idx(j),
                 rel_path |-> "stage_0_raw/" \o file.name,
                 entry_date |-> None,
                 source_date |-> None,
                 source_hash |-> sha256_text(file.raw),
                 content_hash |-> sha256_text(parts[j].text),
                 embed_model |-> a.embed_model,
                 embed_dim |-> ToString(a.embed_dim),
                 chunker_version |-> CHUNKER_VERSION,
                 out_links |-> parts[j].links]]]

\* lines 114-138: the rows of one section
SectionRows(file, a, sec) ==
    LET parts == SectionParts(sec[3], a.max_chars)
    IN  [j \in 1..Len(parts) |->
            [text |-> parts[j].text,
             metadata |->
                [doc_id |-> DocId(file),
                 chunk_id |-> DocId(file) \o "::" \o sec[1] \o "::" \o ToString(j - 1),
                 chunk_anchor |-> sec[1],
                 chunk_title |-> sec[2],
                 chunk_index |-> ToString(j - 1),
                 rel_path |-> "stage_0_raw/" \o file.name,
                 entry_date |-> None,
                 source_date |-> None,
                 source_hash |-> sha256_text(file.raw),
                 content_hash |-> sha256_text(parts[j].text),
                 embed_model |-> a.embed_model,
                 embed_dim |-> ToString(a.embed_dim),
                 chunker_version |-> CHUNKER_VERSION,
                 out_links |-> parts[j].links]]]

\* lines 69-138: the rows of the document
Stage2Rows(file, chunk_input, a) ==
    LET sections == split_into_sections(chunk_input)
    IN  Flatten([s \in 1..Len(sections) |-> SectionRows(file, a, sections[s])])

\* the paragraph each row comes from: <<section, paragraph>>, both 1-based
Stage2From(chunk_input, a) ==
    LET sections == split_into_sections(chunk_input)
    IN  Flatten([s \in 1..Len(sections) |->
                    LET parts == SectionParts(sections[s][3], a.max_chars)
                    IN  [j \in 1..Len(parts) |-> <<s, parts[j].para>>]])

\* the state of the chunking stage while no note is in the pipeline
NoNote == [name |-> "", meta |-> NoMeta, sections |-> <<>>]
NoEdit == [section |-> 0, para |-> 0, rows |-> <<>>, from |-> <<>>]
\* the argparse defaults of lines 35-37
DefaultChunker ==
    [max_chars |-> 2500,
     embed_model |-> "sentence-transformers/all-MiniLM-L6-v2",
     embed_dim |-> 384]

----------------------------------------------------------------------------
(* Pure functions of src/03_stage3_build_chroma.py *)

\* sha256 of the sorted-key JSON of the settings, cut to 16 hex digits: a
\* value determined by the settings and (collisions apart) determining them
stable_settings_hash(d) == <<"sha256/16", d>>

\* device: "auto" resolves through torch.cuda.is_available()
cuda_is_available == FALSE
Device(a) ==
    IF a.device = "auto"
    THEN (IF cuda_is_available THEN "cuda" ELSE "cpu")
    ELSE a.device

Settings(a) ==
    [pipeline_version |-> PIPELINE_VERSION,
     stage3_version |-> STAGE3_VERSION,
     chunks_jsonl |-> a.chunks_jsonl,
     persist_dir |-> a.persist_dir,
     collection |-> a.collection,
     embed_model |-> a.embed_model,
     device |-> Device(a),
     batch_size |-> a.batch_size,
     reset_db |-> a.reset_db,
     mode |-> a.mode]

settings_hash(a) == stable_settings_hash(Settings(a))

\* batch(iterable, n): consecutive slices of n elements, the last one shorter
batch(iterable, n) ==
    [j \in 1..((Len(iterable) + n - 1) \div n) |->
        SubSeq(iterable, (j - 1) * n + 1, Min(j * n, Len(iterable)))]

ids(rs) == [i \in 1..Len(rs) |-> rs[i].metadata["chunk_id"]]
docs(rs) == [i \in 1..Len(rs) |-> rs[i].text]

\* " > ".join(heading_path) for a list, str() otherwise, "" when absent
HeadingPathStr(m) ==
    IF "heading_path" \in DOMAIN m THEN m["heading_path"] ELSE ""

\* the flattened metadata handed to the store: the CHROMA_META_KEYS the row
\* has with a value other than None, plus heading_path_str
MetaOf(m) ==
    [key \in {c \in CHROMA_META_KEYS :
                 c = "heading_path_str" \/ Get(m, c) # None} |->
        IF key = "heading_path_str" THEN HeadingPathStr(m) ELSE m[key]]

metas(rs) == [i \in 1..Len(rs) |-> MetaOf(rs[i].metadata)]

\* RowMissing as "if k not in m or m[k] is None": an empty string passes
RowMissing_EmptyPasses(r) ==
    \E j \in 1..Len(required_keys) :
        \/ required_keys[j] \notin DOMAIN r.metadata
        \/ r.metadata[required_keys[j]] = None

\* a row is reported missing when a required key is absent, None or ""
RowMissing(r) ==
    \E j \in 1..Len(required_keys) :
        \/ required_keys[j] \notin DOMAIN r.metadata
        \/ r.metadata[required_keys[j]] \in {None, ""}

\* missing_meta: the 0-based indexes of the missing rows, at most five
RECURSIVE MissingFrom(_, _)
MissingFrom(rs, i) ==
    IF i > Len(rs) THEN <<>>
    ELSE IF RowMissing(rs[i]) THEN <<i - 1>> \o MissingFrom(rs, i + 1)
    ELSE MissingFrom(rs, i + 1)
missing_meta(rs) == Prefix(MissingFrom(rs, 1), MissingCap)

\* len(ids) != len(set(ids))
HasDuplicateIds(rs) == Len(ids(rs)) # Cardinality(Range(ids(rs)))

----------------------------------------------------------------------------
(* The collection gateway: chromadb's Collection, by what main() uses *)

\* the vector of a text under a model: determined by both
Encode(model, text) == <<"vec", model, text>>

NewCollection(a) ==
    [exists |-> TRUE,
     metadata |-> [pipeline_version |-> PIPELINE_VERSION,
                   stage3_version |-> STAGE3_VERSION,
                   embed_model |-> a.embed_model,
                   device |-> Device(a),
                   settings_hash |-> settings_hash(a)],
     records |-> EmptyRecords]

\* collection.get(ids=...)["ids"]: the requested ids the collection holds
CollGetIds(recs, idseq) ==
    LET Held(i) == i \in DOMAIN recs IN SelectSeq(idseq, Held)

\* CollUpsert as a replacement of the collection's content by the batch
CollUpsert_Replace(recs, new) == new

\* collection.upsert: overwrite or insert
CollUpsert(recs, new) ==
    [i \in DOMAIN recs \cup DOMAIN new |->
        IF i \in DOMAIN new THEN new[i] ELSE recs[i]]

\* collection.delete(ids=...)
CollDelete(recs, idset) ==
    [i \in {x \in DOMAIN recs : x \notin idset} |-> recs[i]]

\* collection.add: inserts the ids the collection does not hold yet
CollAdd(recs, new) ==
    [i \in DOMAIN recs \cup DOMAIN new |->
        IF i \in DOMAIN recs THEN recs[i] ELSE new[i]]

\* the records of one write call
NewRecords(bids, bdocs, bmetas, model) ==
    [i \in Range(bids) |->
        LET j == CHOOSE j \in 1..Len(bids) : bids[j] = i IN
        [document |-> bdocs[j], metadata |-> bmetas[j],
         embedding |-> Encode(model, bdocs[j])]]

\* find_existing_ids with "existing = res.get('ids')" for "existing.extend":
\* only the last lookup's ids are returned
find_existing_ids_LastOnly(recs, idseq, batch_size) ==
    LET bs == batch(idseq, batch_size)
    IN  IF Len(bs) = 0 THEN <<>> ELSE CollGetIds(recs, bs[Len(bs)])

find_existing_ids(recs, idseq, batch_size) ==
    Flatten([j \in 1..Len(batch(idseq, batch_size)) |->
                CollGetIds(recs, batch(idseq, batch_size)[j])])

\* {i: m for i, m in zip(got_ids, metas) if m is not None}
get_existing_meta_by_id(recs, idseq) ==
    [i \in {x \in Range(CollGetIds(recs, idseq)) : recs[x].metadata # NoMeta} |->
        recs[i].metadata]

----------------------------------------------------------------------------
(* One run of main() *)

Terminal == {"done", "returned", "rejected", "failed"}

\* the argparse defaults: what args holds while no run is going on
IdleArgs ==
    [chunks_jsonl |-> "stage_2_chunks.jsonl", persist_dir |-> "stage_3_chroma",
     collection |-> "v1_chunks",
     embed_model |-> "sentence-transformers/all-MiniLM-L6-v2",
     device |-> "auto", batch_size |-> 32, reset_db |-> FALSE,
     mode |-> "upsert", skip_unchanged |-> FALSE, dry_run |-> FALSE]

Rejected(kind, detail) == [kind |-> kind, detail |-> detail]

\* the row indexes of embedding batch j: batch(list(range(len(docs))), n)
Batches(rs, a) ==
    batch([i \in 1..Len(rs) |-> i], a.batch_size)

At(s, idx) == [j \in 1..Len(idx) |-> s[idx[j]]]

\* Unchanged reading the stored content_hash against the incoming chunk_hash
Unchanged_ContentKey(recs, rs, bidx, i) ==
    LET existing_meta == get_existing_meta_by_id(recs, At(ids(rs), bidx))
        cid == ids(rs)[i]
    IN  /\ cid \in DOMAIN existing_meta
        /\ DOMAIN existing_meta[cid] # {}
        /\ Get(existing_meta[cid], "content_hash") = Get(metas(rs)[i], "chunk_hash")

\* "if prev and prev.get('chunk_hash') == batch_metas[i].get('chunk_hash')":
\* row i is skipped as unchanged
Unchanged(recs, rs, bidx, i) ==
    LET existing_meta == get_existing_meta_by_id(recs, At(ids(rs), bidx))
        cid == ids(rs)[i]
    IN  /\ cid \in DOMAIN existing_meta
        /\ DOMAIN existing_meta[cid] # {}
        /\ Get(existing_meta[cid], "chunk_hash") = Get(metas(rs)[i], "chunk_hash")

\* Kept without the skip: every row of the batch goes on to encode and write
Kept_All(recs, rs, a, bidx) == bidx

\* the row indexes of a batch that go on to encode and write: all of them,
\* or keep_ids under upsert with skip_unchanged
Kept(recs, rs, a, bidx) ==
    IF a.mode = "upsert" /\ a.skip_unchanged
    THEN LET Changed(i) == ~Unchanged(recs, rs, bidx, i)
         IN  SelectSeq(bidx, Changed)
    ELSE bidx

\* the store operations one loop iteration may end in: the read of the stored
\* metadata, the embedding call, and the write calls of its branch
FailurePoints(recs, rs, a, bidx, native) ==
    LET kept == Kept(recs, rs, a, bidx)
        upsert == a.mode = "upsert"
    IN  {"none"}
        \cup (IF upsert /\ a.skip_unchanged THEN {"get"} ELSE {})
        \cup (IF kept # <<>> THEN {"encode"} ELSE {})
        \cup (IF kept # <<>> /\ upsert /\ native THEN {"upsert"} ELSE {})
        \cup (IF kept # <<>> /\ upsert /\ ~native THEN {"find"} ELSE {})
        \cup (IF /\ kept # <<>> /\ upsert /\ ~native
                 /\ find_existing_ids(recs, At(ids(rs), kept), Len(kept)) # <<>>
              THEN {"delete"} ELSE {})
        \cup (IF kept # <<>> /\ ~(upsert /\ native) THEN {"add"} ELSE {})

\* without collection.upsert: find the existing ids, delete them, add
FallbackUpsert(recs, new, bids, fail) ==
    LET existing == find_existing_ids(recs, bids, Len(bids))
        deleted == IF existing # <<>>
                   THEN CollDelete(recs, Range(existing)) ELSE recs
    IN  IF fail \in {"find", "delete"} THEN recs
        ELSE IF fail = "add" THEN deleted
        ELSE CollAdd(deleted, new)

\* the records after the write of one batch that ends at `fail`
WriteBatch(recs, rs, a, bidx, native, fail) ==
    LET kept == Kept(recs, rs, a, bidx)
        bids == At(ids(rs), kept)
        new == NewRecords(bids, At(docs(rs), kept), At(metas(rs), kept),
                          a.embed_model)
    IN  IF kept = <<>> \/ fail \in {"get", "encode"} THEN recs
        ELSE IF a.mode = "upsert"
        THEN (IF native
              THEN (IF fail = "upsert" THEN recs ELSE CollUpsert(recs, new))
              ELSE FallbackUpsert(recs, new, bids, fail))
        ELSE (IF fail = "add" THEN recs ELSE CollAdd(recs, new))

\* lines 83-142: parse the arguments, derive the settings, load the rows
Begin(a, rs, relation) ==
    /\ args' = a
    /\ rows' = rs
    /\ prev' = relation
    /\ IF a.collection = ""
       THEN /\ pc' = "rejected"
            /\ error' = Rejected("ValueError: --collection must be a non-empty name", <<>>)
       ELSE IF \E i \in 1..Len(rs) : "chunk_id" \notin DOMAIN rs[i].metadata
       THEN /\ pc' = "rejected"
            /\ error' = Rejected("KeyError: chunk_id", <<>>)
       ELSE /\ pc' = "validate"
            /\ error' = NoError
    /\ k' = 1
    /\ total' = 0
    /\ embedLog' = <<>>
    /\ writeLog' = <<>>
    /\ lookups' = 0
    /\ manifest' = NoManifest
    /\ coll0' = coll
    /\ UNCHANGED <<coll, hasUpsert>>

\* a run with any command line of A over any chunk file of R
StartRun(A, R) ==
    /\ pc = "idle"
    /\ \E a \in A, rs \in R : Begin(a, rs, "other")
    /\ UNCHANGED stage2vars

\* the run that completed is run again: same command line, same chunk file
Rerun ==
    /\ pc = "done"
    /\ Begin(args, rows, "rerun")
    /\ UNCHANGED stage2vars

\* the run that halted on a failure is run again in upsert mode, its other
\* inputs unchanged
Resume ==
    /\ pc = "failed"
    /\ Begin([args EXCEPT !.mode = "upsert"], rows, "resume")
    /\ UNCHANGED stage2vars

\* lines 340-341: main() returned or raised, the process is gone; what stays
\* is the persisted store
Exit ==
    /\ pc \in Terminal
    /\ pc' = "idle"
    /\ args' = IdleArgs
    /\ rows' = <<>>
    /\ k' = 1
    /\ total' = 0
    /\ embedLog' = <<>>
    /\ writeLog' = <<>>
    /\ lookups' = 0
    /\ manifest' = NoManifest
    /\ error' = NoError
    /\ coll0' = coll
    /\ prev' = "other"
    /\ UNCHANGED <<coll, hasUpsert>>
    /\ UNCHANGED stage2vars

\* Validate without the dry-run return: a validated run goes on to the store
Validate_NoDryReturn ==
    /\ pc = "validate"
    /\ IF missing_meta(rows) # <<>>
       THEN /\ pc' = "rejected"
            /\ error' = Rejected("ValueError: Missing required chunk metadata",
                                 missing_meta(rows))
       ELSE IF HasDuplicateIds(rows)
       THEN /\ pc' = "rejected"
            /\ error' = Rejected("ValueError: Duplicate chunk_id", <<>>)
       ELSE /\ pc' = "reset"
            /\ error' = error
    /\ UNCHANGED <<coll, hasUpsert, args, rows, k, total, embedLog, writeLog,
                   lookups, manifest, coll0, prev>>
    /\ UNCHANGED stage2vars

\* lines 144-187: required metadata, duplicate ids, then the dry-run return
Validate ==
    /\ pc = "validate"
    /\ IF missing_meta(rows) # <<>>
       THEN /\ pc' = "rejected"
            /\ error' = Rejected("ValueError: Missing required chunk metadata",
                                 missing_meta(rows))
       ELSE IF HasDuplicateIds(rows)
       THEN /\ pc' = "rejected"
            /\ error' = Rejected("ValueError: Duplicate chunk_id", <<>>)
       ELSE /\ pc' = IF args.dry_run THEN "returned" ELSE "reset"
            /\ error' = error
    /\ UNCHANGED <<coll, hasUpsert, args, rows, k, total, embedLog, writeLog,
                   lookups, manifest, coll0, prev>>
    /\ UNCHANGED stage2vars

\* ResetPersistDir without the test of the mode: --reset_db alone deletes
ResetPersistDir_AnyMode ==
    /\ pc = "reset"
    /\ coll' = IF args.reset_db THEN NoColl ELSE coll
    /\ pc' = "ensure"
    /\ UNCHANGED <<hasUpsert, args, rows, k, total, embedLog, writeLog,
                   lookups, manifest, error, coll0, prev>>
    /\ UNCHANGED stage2vars

\* lines 189-194: rmtree of persist_dir, which holds every collection
ResetPersistDir ==
    /\ pc = "reset"
    /\ coll' = IF args.reset_db /\ args.mode = "rebuild" THEN NoColl ELSE coll
    /\ pc' = "ensure"
    /\ UNCHANGED <<hasUpsert, args, rows, k, total, embedLog, writeLog,
                   lookups, manifest, error, coll0, prev>>
    /\ UNCHANGED stage2vars

\* "if coll_model and coll_model != args.embed_model"
ModelMismatch(c, a) ==
    /\ "embed_model" \in DOMAIN c.metadata
    /\ c.metadata["embed_model"] # ""
    /\ c.metadata["embed_model"] # a.embed_model

\* the guard without its settings_hash half
HashMismatch_Never(c, a) == FALSE

\* "if coll_hash and coll_hash != settings_hash"
HashMismatch(c, a) ==
    /\ "settings_hash" \in DOMAIN c.metadata
    /\ c.metadata["settings_hash"] # settings_hash(a)

\* EnsureCollection with get_or_create for the rebuild branch: an existing
\* collection is kept, records and metadata
EnsureCollection_NoDrop ==
    /\ pc = "ensure"
    /\ IF ~coll.exists
       THEN /\ coll' = NewCollection(args)
            /\ pc' = "diff"
            /\ error' = error
       ELSE IF args.mode # "rebuild" /\ ModelMismatch(coll, args)
       THEN /\ pc' = "rejected"
            /\ error' = Rejected("ValueError: Collection embed_model mismatch", <<>>)
            /\ coll' = coll
       ELSE IF args.mode # "rebuild" /\ HashMismatch(coll, args)
       THEN /\ pc' = "rejected"
            /\ error' = Rejected("ValueError: Collection settings_hash mismatch", <<>>)
            /\ coll' = coll
       ELSE /\ pc' = "diff"
            /\ error' = error
            /\ coll' = coll
    /\ UNCHANGED <<hasUpsert, args, rows, k, total, embedLog, writeLog,
                   lookups, manifest, coll0, prev>>
    /\ UNCHANGED stage2vars

\* EnsureCollection without the guard: an existing collection is reused
\* whatever its metadata say
EnsureCollection_NoGuard ==
    /\ pc = "ensure"
    /\ IF args.mode = "rebuild" \/ ~coll.exists
       THEN /\ coll' = NewCollection(args)
            /\ pc' = "diff"
            /\ error' = error
       ELSE /\ pc' = "diff"
            /\ error' = error
            /\ coll' = coll
    /\ UNCHANGED <<hasUpsert, args, rows, k, total, embedLog, writeLog,
                   lookups, manifest, coll0, prev>>
    /\ UNCHANGED stage2vars

\* EnsureCollection storing the metadata of the run on a collection it reuses
EnsureCollection_Restamp ==
    /\ pc = "ensure"
    /\ IF args.mode = "rebuild" \/ ~coll.exists
       THEN /\ coll' = NewCollection(args)
            /\ pc' = "diff"
            /\ error' = error
       ELSE IF ModelMismatch(coll, args)
       THEN /\ pc' = "rejected"
            /\ error' = Rejected("ValueError: Collection embed_model mismatch", <<>>)
            /\ coll' = coll
       ELSE IF HashMismatch(coll, args)
       THEN /\ pc' = "rejected"
            /\ error' = Rejected("ValueError: Collection settings_hash mismatch", <<>>)
            /\ coll' = coll
       ELSE /\ pc' = "diff"
            /\ error' = error
            /\ coll' = [coll EXCEPT !.metadata = NewCollection(args).metadata]
    /\ UNCHANGED <<hasUpsert, args, rows, k, total, embedLog, writeLog,
                   lookups, manifest, coll0, prev>>
    /\ UNCHANGED stage2vars

\* lines 199-247: drop and create (rebuild), or get-or-create with the guard
EnsureCollection ==
    /\ pc = "ensure"
    /\ IF args.mode = "rebuild" \/ ~coll.exists
       THEN /\ coll' = NewCollection(args)
            /\ pc' = "diff"
            /\ error' = error
       ELSE IF ModelMismatch(coll, args)
       THEN /\ pc' = "rejected"
            /\ error' = Rejected("ValueError: Collection embed_model mismatch", <<>>)
            /\ coll' = coll
       ELSE IF HashMismatch(coll, args)
       THEN /\ pc' = "rejected"
            /\ error' = Rejected("ValueError: Collection settings_hash mismatch", <<>>)
            /\ coll' = coll
       ELSE /\ pc' = "diff"
            /\ error' = error
            /\ coll' = coll
    /\ UNCHANGED <<hasUpsert, args, rows, k, total, embedLog, writeLog,
                   lookups, manifest, coll0, prev>>
    /\ UNCHANGED stage2vars

\* lines 249-255: append refuses a batch with an id the collection holds
AppendCheck ==
    /\ pc = "diff"
    /\ IF args.mode = "append"
       THEN LET existing == find_existing_ids(coll.records, ids(rows),
                                              Min(args.batch_size, FindBatchCap))
            IN  /\ lookups' = lookups + Len(batch(ids(rows),
                                   Min(args.batch_size, FindBatchCap)))
                /\ IF existing # <<>>
                   THEN /\ pc' = "rejected"
                        /\ error' = Rejected("ValueError: Append mode found duplicate ids",
                                             <<Len(existing), Prefix(existing, SampleLimit)>>)
                   ELSE /\ pc' = "batches"
                        /\ error' = error
       ELSE /\ pc' = "batches"
            /\ lookups' = lookups
            /\ error' = error
    /\ UNCHANGED <<coll, hasUpsert, args, rows, k, total, embedLog, writeLog,
                   manifest, coll0, prev>>
    /\ UNCHANGED stage2vars

\* lines 259-321: one iteration of the embed-and-ingest loop; a store or
\* embedding call that raises ends the run
ProcessBatch ==
    /\ pc = "batches"
    /\ k <= Len(Batches(rows, args))
    /\ LET bidx == Batches(rows, args)[k]
           kept == Kept(coll.records, rows, args, bidx)
           skipping == args.mode = "upsert" /\ args.skip_unchanged
           fallback == args.mode = "upsert" /\ ~hasUpsert
       IN  \E fail \in FailurePoints(coll.records, rows, args, bidx, hasUpsert) :
            /\ coll' = [coll EXCEPT !.records =
                           WriteBatch(coll.records, rows, args, bidx, hasUpsert, fail)]
            /\ lookups' = lookups + (IF skipping THEN 1 ELSE 0)
                   + (IF fallback /\ kept # <<>> /\ fail \notin {"get", "encode"}
                      THEN 1 ELSE 0)
            /\ embedLog' = IF kept # <<>> /\ fail # "get"
                           THEN Append(embedLog, At(ids(rows), kept))
                           ELSE embedLog
            /\ writeLog' = IF kept # <<>> /\ fail = "none"
                           THEN Append(writeLog, At(ids(rows), kept))
                           ELSE writeLog
            /\ IF fail = "none"
               THEN /\ pc' = pc
                    /\ k' = k + 1
                    /\ total' = total + Len(kept)
                    /\ error' = error
               ELSE /\ pc' = "failed"
                    /\ k' = k
                    /\ total' = total
                    /\ error' = Rejected("store or embedding failure", <<fail>>)
    /\ UNCHANGED <<hasUpsert, args, rows, manifest, coll0, prev>>
    /\ UNCHANGED stage2vars

\* WriteManifest counting the rows of the input for "added"
WriteManifest_AddedIsChunks ==
    /\ pc = "batches"
    /\ k > Len(Batches(rows, args))
    /\ manifest' = [written |-> TRUE,
                    pipeline_version |-> PIPELINE_VERSION,
                    stage3_version |-> STAGE3_VERSION,
                    settings |-> Settings(args),
                    settings_hash |-> settings_hash(args),
                    counts |-> [chunks |-> Len(rows), added |-> Len(rows)]]
    /\ pc' = "done"
    /\ UNCHANGED <<coll, hasUpsert, args, rows, k, total, embedLog, writeLog,
                   lookups, error, coll0, prev>>
    /\ UNCHANGED stage2vars

\* lines 323-337: the summary and run_manifest.json
WriteManifest ==
    /\ pc = "batches"
    /\ k > Len(Batches(rows, args))
    /\ manifest' = [written |-> TRUE,
                    pipeline_version |-> PIPELINE_VERSION,
                    stage3_version |-> STAGE3_VERSION,
                    settings |-> Settings(args),
                    settings_hash |-> settings_hash(args),
                    counts |-> [chunks |-> Len(rows), added |-> total]]
    /\ pc' = "done"
    /\ UNCHANGED <<coll, hasUpsert, args, rows, k, total, embedLog, writeLog,
                   lookups, error, coll0, prev>>
    /\ UNCHANGED stage2vars

RunSteps ==
    \/ Validate
    \/ ResetPersistDir
    \/ EnsureCollection
    \/ AppendCheck
    \/ ProcessBatch
    \/ WriteManifest

----------------------------------------------------------------------------
(* Inputs: chunk files and command lines *)

\* the longest chunk file tried, which is also the number of chunk ids
MaxRows == 2
BatchSizes == {1, 2}

IdPool == <<"d1::intro::0", "d1::intro::1", "d1::notes::0", "d2::intro::0">>

\* the text of a chunk with its two hashes; the third version has the text
\* and content_hash of the second under the chunk_hash of the first
Versions ==
    {[text |-> "t1", chunk_hash |-> "k1", content_hash |-> "h1"],
     [text |-> "t2", chunk_hash |-> "k2", content_hash |-> "h2"]}
StaleVersion == [text |-> "t2", chunk_hash |-> "k1", content_hash |-> "h2"]

Row(cid, v) ==
    [text |-> v.text,
     metadata |-> [doc_id |-> "d1", chunk_id |-> cid, chunk_key |-> cid,
                   chunk_hash |-> v.chunk_hash, content_hash |-> v.content_hash,
                   source_uri |-> "notes/d1.md", chunk_index |-> "0",
                   cleaned_text |-> v.text]]

\* the first two chunks come in every version of vs, the later ones in one
GoodRows(vs) ==
    {Row(IdPool[i], v) : i \in 1..Min(MaxRows, 2), v \in vs}
    \cup {Row(IdPool[i], CHOOSE v \in Versions : v.text = "t1") : i \in 3..MaxRows}

\* rows that lack a required field, hold it empty, hold it as null, or have
\* no chunk_id at all
BadRows ==
    {[text |-> "t1",
      metadata |-> [doc_id |-> "d1", chunk_id |-> "d1::intro::0",
                    chunk_hash |-> "k1", content_hash |-> "h1",
                    source_uri |-> "notes/d1.md", chunk_index |-> "0",
                    cleaned_text |-> "t1"]],
     [text |-> "t1",
      metadata |-> [doc_id |-> "d1", chunk_id |-> "d1::intro::0",
                    chunk_key |-> "d1::intro::0",
                    chunk_hash |-> "", content_hash |-> "h1",
                    source_uri |-> "notes/d1.md", chunk_index |-> "0",
                    cleaned_text |-> "t1"]],
     [text |-> "t1",
      metadata |-> [doc_id |-> "d1", chunk_id |-> "d1::intro::0",
                    chunk_key |-> "d1::intro::0",
                    chunk_hash |-> "k1", content_hash |-> "h1",
                    source_uri |-> None, chunk_index |-> "0",
                    cleaned_text |-> "t1"]],
     [text |-> "t1",
      metadata |-> [doc_id |-> "d1", chunk_key |-> "d1::intro::0",
                    chunk_hash |-> "k1", content_hash |-> "h1",
                    source_uri |-> "notes/d1.md", chunk_index |-> "0",
                    cleaned_text |-> "t1"]]}

SeqsUpTo(S, n) == UNION {[1..m -> S] : m \in 0..n}

\* no two rows of the file share a chunk_id
Distinct(f) ==
    \A i, j \in DOMAIN f :
        i # j => f[i].metadata["chunk_id"] # f[j].metadata["chunk_id"]

\* the chunk files that pass validation: at most MaxRows good rows
ValidFiles(vs) == {f \in SeqsUpTo(GoodRows(vs), MaxRows) : Distinct(f)}

\* chunk files that fail it: a bad row alone or after a good row, and the
\* same chunk_id twice
InvalidFiles(vs) ==
    LET g == Row(IdPool[2], CHOOSE v \in Versions : v.text = "t1")
    IN  {<<b>> : b \in BadRows} \cup {<<g, b>> : b \in BadRows}
        \cup {<<g, g>>}

ChunkFiles(vs) == ValidFiles(vs) \cup InvalidFiles(vs)

ArgsOf(modes, models, skips, drys, resets) ==
    [chunks_jsonl : {"stage_2_chunks.jsonl"},
     persist_dir : {"stage_3_chroma"},
     collection : {"v1_chunks"},
     embed_model : models,
     device : {"auto"},
     batch_size : BatchSizes,
     reset_db : resets,
     mode : modes,
     skip_unchanged : skips,
     dry_run : drys]

Modes == {"rebuild", "append", "upsert"}
Models == {"all-MiniLM-L6-v2", "all-mpnet-base-v2"}

\* a collection made by another tool: no metadata on the collection, and a
\* record with or without metadata
LegacyColls ==
    LET r == Row("d1::intro::0", CHOOSE v \in Versions : v.text = "t1")
        rec(m) == [document |-> r.text, metadata |-> m,
                   embedding |-> Encode("legacy", r.text)]
    IN  {[exists |-> TRUE, metadata |-> NoMeta,
          records |-> [i \in {"d1::intro::0"} |-> rec(m)]] :
            m \in {NoMeta, MetaOf(r.metadata)}}

\* no run is going on
InitStore(colls, apis) ==
    /\ coll \in colls
    /\ hasUpsert \in apis
    /\ pc = "idle"
    /\ args = IdleArgs
    /\ rows = <<>>
    /\ k = 1
    /\ total = 0
    /\ embedLog = <<>>
    /\ writeLog = <<>>
    /\ lookups = 0
    /\ manifest = NoManifest
    /\ error = NoError
    /\ coll0 = coll
    /\ prev = "other"

\* no note is in the pipeline: the chunk files come from elsewhere
InitWith(colls, apis) ==
    /\ InitStore(colls, apis)
    /\ note = NoNote
    /\ chunker = DefaultChunker
    /\ out_jsonl = <<>>
    /\ stage = "off"
    /\ edited = NoEdit
    /\ doc_sections = <<>>
    /\ doc_parts = <<>>

InitColls == {NoColl} \cup LegacyColls
Files == ChunkFiles(Versions)
FilesWithStale == ChunkFiles(Versions \cup {StaleVersion})
ArgsModes == ArgsOf(Modes, Models, BOOLEAN, {FALSE}, {FALSE})
ArgsFlags == ArgsOf(Modes, {"all-MiniLM-L6-v2"}, {FALSE}, BOOLEAN, BOOLEAN)
ArgsApi == ArgsOf(Modes, {"all-MiniLM-L6-v2"}, BOOLEAN, {FALSE}, {FALSE})

\* runs in every mode and under two embedding models against a store with
\* a native upsert; a completed run may be repeated
Init == InitWith(InitColls, {TRUE})
Next ==
    \/ StartRun(ArgsModes, Files)
    \/ Rerun
    \/ Exit
    \/ RunSteps
Spec == Init /\ [][Next]_vars

\* runs with the --dry_run and --reset_db flags
NextFlags ==
    \/ StartRun(ArgsFlags, Files)
    \/ Exit
    \/ RunSteps
SpecFlags == Init /\ [][NextFlags]_vars

\* runs against stores with and without a native upsert, over chunk files
\* that also hold the stale version; a halted run may be resumed
InitApi == InitWith(InitColls, BOOLEAN)
NextApi ==
    \/ StartRun(ArgsApi, FilesWithStale)
    \/ Resume
    \/ Exit
    \/ RunSteps
SpecApi == InitApi /\ [][NextApi]_vars

\* runs that may skip unchanged chunks, against stores with and without a
\* native upsert; a completed run may be repeated
NextLoop ==
    \/ StartRun(ArgsApi, Files)
    \/ Rerun
    \/ Exit
    \/ RunSteps
SpecLoop == InitApi /\ [][NextLoop]_vars

\* runs with the --reset_db flag in every mode, against stores with and
\* without a native upsert
NextReset ==
    \/ StartRun(ArgsFlags, Files)
    \/ Exit
    \/ RunSteps
SpecReset == InitApi /\ [][NextReset]_vars

\* runs with every combination of --mode, --skip_unchanged and --dry_run,
\* one after the other
ArgsAudit == ArgsOf(Modes, {"all-MiniLM-L6-v2"}, BOOLEAN, BOOLEAN, {FALSE})
NextAudit ==
    \/ StartRun(ArgsAudit, Files)
    \/ Exit
    \/ RunSteps
SpecAudit == InitApi /\ [][NextAudit]_vars

\* runs that differ in the fingerprinted settings: --chunks_jsonl, --device,
\* --batch_size, --reset_db, --mode and --embed_model, over chunk files of
\* one row
ArgsGuard ==
    [chunks_jsonl : {"stage_2_chunks.jsonl", "merged_chunks.jsonl"},
     persist_dir : {"stage_3_chroma"},
     collection : {"v1_chunks"},
     embed_model : Models,
     device : {"auto", "cuda"},
     batch_size : BatchSizes,
     reset_db : BOOLEAN,
     mode : Modes,
     skip_unchanged : {FALSE},
     dry_run : BOOLEAN]
GuardFiles == {f \in ValidFiles(Versions) : Len(f) = 1}
NextGuard ==
    \/ StartRun(ArgsGuard, GuardFiles)
    \/ Exit
    \/ RunSteps
SpecGuard == Init /\ [][NextGuard]_vars

----------------------------------------------------------------------------
(* The pipeline: a note is chunked, the chunk file is synchronised, the note
   is edited, chunked and synchronised again *)

\* the paragraphs notes are written from
Paragraphs ==
    {"Alpha one.",
     "Beta two. Gamma three!",
     "See [[Project X|the project]] now."}
Titles == <<"Intro", "Daily Notes">>
\* at most this many paragraphs in a section
MaxParas == 2
MaxCharsChoices == {16, 2500}

SectionsOf(n) ==
    {secs \in [1..n -> [title : Range(Titles),
                        paras : UNION {[1..m -> Paragraphs] : m \in 1..MaxParas}]] :
        \A i \in 1..n : secs[i].title = Titles[i]}
Notes ==
    [name : {"note.md"},
     meta : {NoMeta, [uuid |-> "d1"]},
     sections : UNION {SectionsOf(n) : n \in 1..Len(Titles)}]

\* the text of the note: the body as stage_1_clean holds it (the notes here
\* are clean already: no code fence, no blockquote, no run of blank lines),
\* and the raw file of stage_0_raw, front matter first
Body(n) ==
    join("\n", [i \in 1..Len(n.sections) |->
                   "## " \o n.sections[i].title \o "\n"
                       \o join("\n\n", n.sections[i].paras) \o "\n"])
RawText(n) ==
    (IF "uuid" \in DOMAIN n.meta THEN "---\nuuid: " \o n.meta["uuid"] \o "\n---\n"
     ELSE "") \o Body(n)
RawFile(n) == [name |-> n.name, meta |-> n.meta, raw |-> RawText(n)]

\* the command lines of 03_stage2_chunk.py for one chunker configuration
Stage2Args(c) ==
    [stage0_raw : {"stage_0_raw/note.md"}, out_jsonl : {"stage_2_chunks.jsonl"},
     embed_model : {c.embed_model}, embed_dim : {c.embed_dim},
     max_chars : {c.max_chars}, dry_run : BOOLEAN,
     stage1_dir : {"stage_1_clean"}, prefer_stage1 : BOOLEAN]

\* 03_stage2_chunk.py main(): without --prefer_stage1 line 61 reads the
\* undefined name body_md and the run ends in a NameError; a dry run writes
\* nothing; otherwise the rows go to out_jsonl
ChunkNote ==
    /\ stage \in {"source", "chunk_failed", "chunk_dry"}
    /\ \E a \in Stage2Args(chunker) :
          IF ~a.prefer_stage1
          THEN /\ stage' = "chunk_failed"
               /\ out_jsonl' = out_jsonl
          ELSE IF a.dry_run
          THEN /\ stage' = "chunk_dry"
               /\ out_jsonl' = out_jsonl
          ELSE /\ stage' = "chunked"
               /\ out_jsonl' = Stage2Rows(RawFile(note), Body(note), a)
    /\ UNCHANGED <<note, chunker, edited, doc_sections, doc_parts>>
    /\ UNCHANGED <<coll, hasUpsert, pc, args, rows, k, total, embedLog, writeLog,
                   lookups, manifest, error, coll0, prev>>

\* the command line of the sync engine in the pipeline: upsert, skip_unchanged
PipelineArgs == [IdleArgs EXCEPT !.mode = "upsert", !.skip_unchanged = TRUE]

\* 03_stage3_build_chroma.py is started on the chunk file of stage 2
SyncChunks ==
    /\ stage = "chunked"
    /\ pc = "idle"
    /\ Begin(PipelineArgs, out_jsonl, "other")
    /\ stage' = "synced"
    /\ UNCHANGED <<note, chunker, out_jsonl, edited, doc_sections, doc_parts>>

\* the text of one paragraph of the note is replaced, and stages 0 and 1 are
\* run again
EditNote ==
    /\ stage = "synced"
    /\ pc = "idle"
    /\ edited = NoEdit
    /\ \E s \in 1..Len(note.sections) :
          \E p \in 1..Len(note.sections[s].paras) :
              \E new \in Paragraphs \ {note.sections[s].paras[p]} :
                  /\ note' = [note EXCEPT !.sections[s].paras[p] = new]
                  /\ edited' = [section |-> s, para |-> p, rows |-> out_jsonl,
                                from |-> Stage2From(Body(note), chunker)]
    /\ stage' = "source"
    /\ UNCHANGED <<chunker, out_jsonl, doc_sections, doc_parts>>
    /\ UNCHANGED <<coll, hasUpsert, pc, args, rows, k, total, embedLog, writeLog,
                   lookups, manifest, error, coll0, prev>>

\* one note through the pipeline, against a store with no collection yet.
\* Validate ends every run of the sync engine here (the rows of stage 2 carry
\* no chunk_key, chunk_hash, source_uri or cleaned_text), so the later steps
\* of main() are never enabled
InitPipeline ==
    /\ InitStore({NoColl}, {TRUE})
    /\ note \in Notes
    /\ chunker \in [max_chars : MaxCharsChoices,
                    embed_model : {DefaultChunker.embed_model},
                    embed_dim : {DefaultChunker.embed_dim}]
    /\ out_jsonl = <<>>
    /\ stage = "source"
    /\ edited = NoEdit
    /\ doc_sections = <<>>
    /\ doc_parts = <<>>
NextPipeline ==
    \/ ChunkNote
    \/ SyncChunks
    \/ Validate
    \/ Exit
    \/ EditNote
SpecPipeline == InitPipeline /\ [][NextPipeline]_vars

----------------------------------------------------------------------------
(* The chunker alone: 03_stage2_chunk.py --prefer_stage1 on one document,
   followed step by step, and executed a second time on the same input *)

\* the lines documents are written from: headings of three levels, a body
\* line and a blank line
MaxLines == 3
\* the sentences paragraphs are written from
Pieces == {"Aa.", "Bbb!", "Long ones?", "[[X|y]]."}
MaxPieces == 3

HeadingDocs ==
    LET DocLines == {"# T", "## A", "### C", "foo", ""}
    IN  {join("\n", ls) \o "\n" :
            ls \in UNION {[1..n -> DocLines] : n \in 1..MaxLines}}
PackParagraphs ==
    {join(" ", ps) : ps \in UNION {[1..n -> Pieces] : n \in 1..MaxPieces}}
\* the two documents spec.md works through: section splitting, and three
\* 20-character sentences for the packer
SectionExample == "Pre\n## A\nfoo\n## B\nbar\n"
\* a document with two sections of one title
SameTitleExample == "## A\nfoo\n## A\nfoo\n\nfoo\n"
PackExample ==
    LET Sentence20 == "Abcdefghi jklmnopqr."
    IN  Sentence20 \o " " \o Sentence20 \o " " \o Sentence20

\* what the chunker is run on: the text of stage_1_clean/<stem>.clean.txt
\* and --max_chars
ChunkCases ==
    [text : HeadingDocs \cup {SectionExample, SameTitleExample},
     max_chars : {2500}]
        \cup [text : {"## A\n" \o p \o "\n" : p \in PackParagraphs}
                         \cup {"## A\nfoo\n\n" \o p \o "\n## B\nfoo\n" :
                                  p \in PackParagraphs},
              max_chars : {8}]
        \cup [text : {"## A\n" \o PackExample \o "\n"}, max_chars : {41, 50}]

\* lines 45-67: the raw file of the document the chunker reads
ChunkFile(n) ==
    [name |-> n.name, meta |-> n.meta,
     raw |-> "---\nuuid: " \o n.meta["uuid"] \o "\n---\n"
                 \o (IF "raw" \in DOMAIN n THEN n.raw ELSE n.text)]

\* line 69
SplitSections ==
    /\ stage = "source"
    /\ doc_sections' = split_into_sections(note.text)
    /\ stage' = "split"
    /\ UNCHANGED <<note, chunker, out_jsonl, edited, doc_parts>>
    /\ UNCHANGED <<coll, hasUpsert, pc, args, rows, k, total, embedLog, writeLog,
                   lookups, manifest, error, coll0, prev>>

\* lines 74-112, for every section
PackSections ==
    /\ stage = "split"
    /\ doc_parts' = [s \in 1..Len(doc_sections) |->
                        SectionParts(doc_sections[s][3], chunker.max_chars)]
    /\ stage' = "packed"
    /\ UNCHANGED <<note, chunker, out_jsonl, edited, doc_sections>>
    /\ UNCHANGED <<coll, hasUpsert, pc, args, rows, k, total, embedLog, writeLog,
                   lookups, manifest, error, coll0, prev>>

\* lines 114-156: the rows, written to out_jsonl
WriteRows ==
    /\ stage = "packed"
    /\ out_jsonl' = Stage2Rows(ChunkFile(note), note.text, chunker)
    /\ stage' = "chunked"
    /\ UNCHANGED <<note, chunker, edited, doc_sections, doc_parts>>
    /\ UNCHANGED <<coll, hasUpsert, pc, args, rows, k, total, embedLog, writeLog,
                   lookups, manifest, error, coll0, prev>>

\* main() is executed again on the same document with the same options; the
\* rows of the execution before are kept in edited.rows
Rechunk ==
    /\ stage = "chunked"
    /\ out_jsonl' = Stage2Rows(ChunkFile(note), note.text, chunker)
    /\ edited' = [edited EXCEPT !.rows = out_jsonl]
    /\ stage' = "rechunked"
    /\ UNCHANGED <<note, chunker, doc_sections, doc_parts>>
    /\ UNCHANGED <<coll, hasUpsert, pc, args, rows, k, total, embedLog, writeLog,
                   lookups, manifest, error, coll0, prev>>

InitChunker ==
    /\ InitStore({NoColl}, {TRUE})
    /\ \E c \in ChunkCases :
          /\ note = [name |-> "note.md", meta |-> [uuid |-> "d1"], text |-> c.text]
          /\ chunker = [DefaultChunker EXCEPT !.max_chars = c.max_chars]
    /\ out_jsonl = <<>>
    /\ stage = "source"
    /\ edited = NoEdit
    /\ doc_sections = <<>>
    /\ doc_parts = <<>>
NextChunker ==
    \/ SplitSections
    \/ PackSections
    \/ WriteRows
    \/ Rechunk
SpecChunker == InitChunker /\ [][NextChunker]_vars

\* documents with code fences, blockquotes and links: the raw text of stage 0
MaxFenceLines == 4
FenceDocs ==
    LET FenceLines == {FENCE, "> q", "[[T|a]]", "foo"}
    IN  {"## A\n" \o join("\n", ls) \o "\n" :
            ls \in UNION {[1..n -> FenceLines] : n \in 1..MaxFenceLines}}

\* stage 1 (01_clean.py, the Normalizer): the clean text that
\* 03_stage2_chunk.py --prefer_stage1 reads at line 58 is the normalized
\* body (line 61)
NormalizeNote ==
    /\ stage = "raw"
    /\ note' = [note EXCEPT !.text = normalize_markdown_light(note.raw)]
    /\ stage' = "source"
    /\ UNCHANGED <<chunker, out_jsonl, edited, doc_sections, doc_parts>>
    /\ UNCHANGED <<coll, hasUpsert, pc, args, rows, k, total, embedLog, writeLog,
                   lookups, manifest, error, coll0, prev>>

InitFence ==
    /\ InitStore({NoColl}, {TRUE})
    /\ \E d \in FenceDocs :
          note = [name |-> "note.md", meta |-> [uuid |-> "d1"], raw |-> d,
                  text |-> ""]
    /\ chunker = DefaultChunker
    /\ out_jsonl = <<>>
    /\ stage = "raw"
    /\ edited = NoEdit
    /\ doc_sections = <<>>
    /\ doc_parts = <<>>
NextFence ==
    \/ NormalizeNote
    \/ SplitSections
    \/ PackSections
    \/ WriteRows
SpecFence == InitFence /\ [][NextFence]_vars

----------------------------------------------------------------------------
(* Properties *)

\* the ids of the chunk file, for files whose rows all carry a chunk_id
HasIds(rs) == \A i \in 1..Len(rs) : "chunk_id" \in DOMAIN rs[i].metadata
IdSet(rs) == {rs[i].metadata["chunk_id"] : i \in 1..Len(rs)}

\* the record main() hands to the store for row i
RecordOf(rs, a, i) ==
    [document |-> rs[i].text, metadata |-> MetaOf(rs[i].metadata),
     embedding |-> Encode(a.embed_model, rs[i].text)]

\* the run got past the collection guard
Proceeded == pc \in {"diff", "batches", "done", "failed"}
\* the run got to the embed-and-ingest loop
Ingesting == pc \in {"batches", "done", "failed"}

\* the records after the first j batches went through without a failure
RECURSIVE Committed(_, _, _, _, _)
Committed(recs, rs, a, native, j) ==
    IF j = 0 THEN recs
    ELSE WriteBatch(Committed(recs, rs, a, native, j - 1), rs, a,
                    Batches(rs, a)[j], native, "none")

\* C1  Idempotent upsert: when an upsert run with skip_unchanged has
\* completed and is run again on the same chunk file with the same command
\* line, the second run is not rejected, calls the embedding function for
\* nothing, counts zero added records (also in its manifest) and leaves the
\* collection as it found it.
C1_IdempotentUpsert ==
    (prev = "rerun" /\ args.mode = "upsert" /\ args.skip_unchanged) =>
        /\ pc # "rejected"
        /\ embedLog = <<>>
        /\ total = 0
        /\ coll = coll0
        /\ (pc = "done" => manifest.written /\ manifest.counts.added = 0)

C1_Witness ==
    /\ prev = "rerun" /\ args.mode = "upsert" /\ args.skip_unchanged
    /\ pc = "done"
    /\ Len(rows) = 2
    /\ lookups > 0

\* C2  Append safety: an append run over a chunk file with an id the
\* collection already holds never reaches the embed-and-ingest loop: no
\* embedding call, the collection unchanged (the file's new ids are not
\* added either), and it ends rejected; when it is
\* the duplicate check that ends it, the report counts the held ids of the
\* file and samples at most SampleLimit of them.  An append run repeated over
\* the same non-empty file after it completed ends rejected by that check.
C2_Held == IF HasIds(rows) THEN IdSet(rows) \cap DOMAIN coll0.records ELSE {}
C2_AppendSafety ==
    /\ (args.mode = "append" /\ pc # "idle" /\ C2_Held # {}) =>
          /\ ~Ingesting
          /\ embedLog = <<>>
          /\ coll = coll0
          /\ ~manifest.written
          /\ (pc \in Terminal => pc = "rejected")
          /\ (error.kind = "ValueError: Append mode found duplicate ids" =>
                /\ error.detail[1] = Cardinality(C2_Held)
                /\ Len(error.detail[2]) = Min(SampleLimit, Cardinality(C2_Held))
                /\ Range(error.detail[2]) \subseteq C2_Held)
    /\ (args.mode = "append" /\ prev = "rerun" /\ rows # <<>> /\ pc \in Terminal) =>
          /\ pc = "rejected"
          /\ error.kind = "ValueError: Append mode found duplicate ids"

C2_Witness ==
    /\ args.mode = "append"
    /\ pc = "rejected"
    /\ error.kind = "ValueError: Append mode found duplicate ids"
    /\ C2_Held # {}
    /\ IdSet(rows) \ DOMAIN coll0.records # {}

\* C3  All-or-nothing validation: in every mode and with any flag, a run
\* over a chunk file with a row that lacks a required field (absent, null or
\* empty) or with a repeated chunk_id ends rejected straight after loading:
\* the persist directory is not reset, no collection is dropped or created,
\* nothing is looked up, embedded or written, no manifest appears.
C3_Invalid ==
    \/ \E i \in 1..Len(rows) :
          \E j \in 1..Len(required_keys) :
              Get(rows[i].metadata, required_keys[j]) \in {None, ""}
    \/ Cardinality(IdSet(rows)) # Len(rows)
C3_AllOrNothing ==
    (pc # "idle" /\ C3_Invalid) =>
        /\ pc \in {"validate", "rejected"}
        /\ coll = coll0
        /\ embedLog = <<>>
        /\ lookups = 0
        /\ total = 0
        /\ ~manifest.written

C3_Witness ==
    /\ pc = "rejected"
    /\ error.kind = "ValueError: Duplicate chunk_id"
    /\ args.mode = "rebuild" /\ args.reset_db /\ ~args.dry_run
    /\ coll.exists /\ DOMAIN coll.records # {}

\* C4  Fingerprint guard, as the claim states it: an append or upsert run
\* on an existing collection gets past the guard only if the stored
\* embed_model and the stored settings_hash equal the run's.
C4_GuardEquality ==
    (args.mode \in {"append", "upsert"} /\ coll0.exists /\ Proceeded) =>
        /\ "embed_model" \in DOMAIN coll0.metadata
        /\ coll0.metadata["embed_model"] = args.embed_model
        /\ "settings_hash" \in DOMAIN coll0.metadata
        /\ coll0.metadata["settings_hash"] = settings_hash(args)

\* C4  Fingerprint guard, amended: an append or upsert run on an existing
\* collection gets past the guard only if the stored embed_model is absent
\* (or empty) or equals the run's, and the stored settings_hash is absent or
\* equals the run's; a stored value that is present and differs ends the run
\* rejected, with no embedding call and no change to the collection.
C4_Differs ==
    \/ /\ Get(coll0.metadata, "embed_model") \notin {None, ""}
       /\ coll0.metadata["embed_model"] # args.embed_model
    \/ /\ "settings_hash" \in DOMAIN coll0.metadata
       /\ coll0.metadata["settings_hash"] # settings_hash(args)
C4_FingerprintGuard ==
    (args.mode \in {"append", "upsert"} /\ coll0.exists /\ pc # "idle") =>
        /\ (Proceeded => ~C4_Differs)
        /\ (C4_Differs =>
              /\ embedLog = <<>>
              /\ coll = coll0
              /\ ~manifest.written
              /\ (pc \in Terminal => pc = "rejected"))

C4_Witness ==
    /\ args.mode = "upsert" /\ coll0.exists
    /\ pc = "rejected"
    /\ error.kind = "ValueError: Collection settings_hash mismatch"
    /\ coll0.metadata["embed_model"] = args.embed_model

\* C5  Upsert skip rule, as the claim states it: in a completed upsert run
\* with skip_unchanged a chunk was skipped exactly when the collection held
\* a record of its id with its content_hash.
C5_SkipOnContentHash ==
    (args.mode = "upsert" /\ args.skip_unchanged /\ pc = "done") =>
        \A i \in 1..Len(rows) :
            LET cid == rows[i].metadata["chunk_id"]
                skipped == cid \notin Range(Flatten(embedLog))
            IN  skipped <=>
                    /\ cid \in DOMAIN coll0.records
                    /\ Get(coll0.records[cid].metadata, "content_hash")
                           = rows[i].metadata["content_hash"]

\* the second synchronisation of the pipeline has ended
Resynced == stage = "synced" /\ edited # NoEdit /\ pc \in Terminal
\* the rows that come from the edited paragraph, and the other rows, by the
\* paragraph they come from, their chunk_id and their content_hash
C6_At == <<edited.section, edited.para>>
C6_Siblings(rs, from) ==
    {<<from[j], rs[j].metadata["chunk_id"], rs[j].metadata["content_hash"]>> :
        j \in {i \in 1..Len(rs) : from[i] # C6_At}}
C6_Now == Stage2From(Body(note), chunker)

\* C6  Change detection: a note is chunked and synchronised, one of its
\* paragraphs is edited, and the note is chunked and synchronised again
\* (upsert, skip_unchanged): the second run completes; the chunks of the
\* edited paragraph are embedded and their records written; every chunk of
\* another paragraph has the chunk_id and the content_hash it had before, is
\* not embedded, and its stored record is as it was.
C6_ChangeDetection ==
    Resynced =>
        /\ pc = "done"
        /\ C6_Siblings(rows, C6_Now) = C6_Siblings(edited.rows, edited.from)
        /\ \A j \in 1..Len(rows) :
              LET cid == rows[j].metadata["chunk_id"] IN
              IF C6_Now[j] = C6_At
              THEN /\ cid \in Range(Flatten(embedLog))
                   /\ cid \in DOMAIN coll.records
                   /\ coll.records[cid].document = rows[j].text
              ELSE /\ cid \notin Range(Flatten(embedLog))
                   /\ cid \in DOMAIN coll0.records
                   /\ cid \in DOMAIN coll.records
                   /\ coll.records[cid] = coll0.records[cid]

\* C7  Rebuild result: when a rebuild run completes, the collection holds the
\* record of every row of the chunk file and nothing else, whatever it held
\* before, it carries the run's embed_model and settings_hash, the run looked
\* nothing up, and every row counts as added.
C7_RebuildResult ==
    (args.mode = "rebuild" /\ pc = "done") =>
        /\ coll.exists
        /\ DOMAIN coll.records = IdSet(rows)
        /\ \A i \in 1..Len(rows) :
              coll.records[rows[i].metadata["chunk_id"]] = RecordOf(rows, args, i)
        /\ coll.metadata["embed_model"] = args.embed_model
        /\ coll.metadata["settings_hash"] = settings_hash(args)
        /\ lookups = 0
        /\ manifest.counts = [chunks |-> Len(rows), added |-> Len(rows)]

C7_Witness ==
    /\ args.mode = "rebuild" /\ pc = "done"
    /\ coll0.exists
    /\ DOMAIN coll0.records \ IdSet(rows) # {}
    /\ rows # <<>>
    /\ coll0.metadata # coll.metadata

\* the records the embed-and-ingest loop starts from
LoopStart ==
    IF args.mode = "rebuild" \/ ~coll0.exists THEN EmptyRecords
    ELSE coll0.records

\* C8  Upsert fallback equivalence: wherever an upsert run stands in its
\* loop, completed or halted by a failed store call, the collection is the
\* one a native upsert leaves after the batches processed so far.
C8_FallbackEquivalence ==
    (args.mode = "upsert" /\ Ingesting) =>
        coll.records = Committed(LoopStart, rows, args, TRUE, k - 1)

\* C9  Committed prefix on failure: when the embedding call or a store call
\* of batch k fails, the run halts there: no manifest, no embedding call for
\* a later batch, and the collection holds the writes of batches 1..k-1 and
\* no effect of batch k.
C9_CommittedPrefix ==
    (pc = "failed") =>
        /\ ~manifest.written
        /\ Len(embedLog) <= k
        /\ Range(Flatten(embedLog)) \subseteq
              {ids(rows)[i] : i \in 1..Min(Len(rows), k * args.batch_size)}
        /\ coll.records = Committed(LoopStart, rows, args, hasUpsert, k - 1)

\* C10  Resume after failure: a run that halted on a failure in its loop,
\* run again in upsert mode with its other inputs unchanged, is not rejected
\* and, when it completes, leaves the record of every row in the collection.
C10_ResumeInUpsert ==
    (prev = "resume") =>
        /\ pc # "rejected"
        /\ (pc = "done" =>
              \A i \in 1..Len(rows) :
                  /\ rows[i].metadata["chunk_id"] \in DOMAIN coll.records
                  /\ coll.records[rows[i].metadata["chunk_id"]]
                         = RecordOf(rows, args, i))

----------------------------------------------------------------------------
(* Properties of the chunker *)

\* the paragraphs of section s of the document, and the <<section,
\* paragraph>> pairs whose paragraph is longer than max_chars
ParagraphsOf(s) == paragraphs_raw(doc_sections[s][3])
LongParagraphs ==
    {sp \in UNION {{<<s, p>> : p \in 1..Len(ParagraphsOf(s))} :
                      s \in 1..Len(doc_sections)} :
        Len(ParagraphsOf(sp[1])[sp[2]]) > chunker.max_chars}
\* the sentence pieces of a paragraph, and the parts emitted for it
PiecesOf(sp) == SentenceSplit(ParagraphsOf(sp[1])[sp[2]])
PartsOf(sp) ==
    LET parts == doc_parts[sp[1]]
        Mine(part) == part.para = sp[2]
    IN  SelectSeq(parts, Mine)
Packed == stage \in {"packed", "chunked", "rechunked"}

\* pieces a..b joined with single spaces
Joined(pieces, a, b) == join(" ", SubSeq(pieces, a, b))
\* the ways to cut the pieces into runs (a cut c separates piece c from piece
\* c + 1) such that every run of two or more pieces is at most max_chars long
FittingCuts(pieces, max_chars) ==
    {C \in SUBSET (1..(Len(pieces) - 1)) :
        \A a \in 1..Len(pieces) : \A b \in (a + 1)..Len(pieces) :
            (C \cap (a..(b - 1)) = {}) => Len(Joined(pieces, a, b)) <= max_chars}
MinChunks(pieces, max_chars) ==
    SetMin({Cardinality(C) + 1 : C \in FittingCuts(pieces, max_chars)})

\* C11  Minimal greedy packing, as the claim states it: a paragraph longer
\* than max_chars is packed into the least number of chunks such that no
\* sentence piece is split and every chunk of two or more pieces is at most
\* max_chars long (the packer flushes only when the joined text would be
\* longer than max_chars).
C11_MinimalPacking ==
    Packed =>
        \A sp \in LongParagraphs :
            Len(PartsOf(sp)) = MinChunks(PiecesOf(sp), chunker.max_chars)

\* the worked example of the claim: max_chars = 50, three 20-character
\* sentences, two chunks
C11_Example ==
    (Packed /\ note.text = "## A\n" \o PackExample \o "\n"
        /\ chunker.max_chars = 50) =>
        Len(doc_parts[1]) = 2

SectionsByRule(text) ==
    LET lines == splitlines(text)
        level == [i \in 1..Len(lines) |-> HeadingOf(lines[i]).level]
        levels == Range(level) \ {0}
        target == IF levels = {} THEN 0 ELSE IF 2 \in levels THEN 2 ELSE SetMin(levels)
        at == {i \in 1..Len(lines) : level[i] = target}
        n == Cardinality(at)
        nth == [m \in 1..n |->
                   CHOOSE i \in at : Cardinality({j \in at : j < i}) = m - 1]
        span == [m \in 0..n |->
                    LET first == IF m = 0 THEN 1 ELSE nth[m] + 1
                        last == IF m = n THEN Len(lines) ELSE nth[m + 1] - 1
                        title == IF m = 0 THEN "preamble"
                                 ELSE strip(HeadingOf(lines[nth[m]]).title)
                    IN  <<slugify(title), title,
                          strip(join("\n", SubSeq(lines, first, last))) \o "\n">>]
    IN  IF target = 0
        THEN (IF strip(text) = "" THEN <<>>
              ELSE <<<<"preamble", "preamble", strip(text) \o "\n">>>>)
        ELSE IF span[0][3] = "\n" THEN [i \in 1..n |-> span[i]]
        ELSE [i \in 1..(n + 1) |-> span[i - 1]]
DocLevels ==
    {HeadingOf(line).level : line \in Range(splitlines(note.text))} \ {0}

\* C13  Split-level rule: the sections are the spans of the document between
\* the headings of level 2 when it has one, of its smallest heading level
\* otherwise, each titled by its heading, the headings of other levels left
\* in the text of their span, the span before the first heading (titled
\* "preamble") present when it holds text; a document without a heading is
\* one section ("preamble", "preamble", its text, trimmed, and a newline), or
\* no section when it is blank.
C13_SplitLevelRule ==
    (stage = "split") => doc_sections = SectionsByRule(note.text)

\* a document with headings of level 1, 2 and 3, split on level 2 with the
\* other headings in the text of its sections
C13_Witness ==
    /\ stage = "split"
    /\ DocLevels = {1, 2, 3}
    /\ \E i \in 1..Len(doc_sections) :
          /\ doc_sections[i][2] = "A"
          /\ doc_sections[i][3] = "### C\n# T\n"

\* C14  Section splitting example, as the claim states it: the input
\* "Pre\n## A\nfoo\n## B\nbar\n" yields the two sections ("a","A","foo\n")
\* and ("b","B","bar\n") and no section for the leading text "Pre".
C14_ExampleTwoSections ==
    (stage = "split" /\ note.text = SectionExample) =>
        doc_sections = <<<<"a", "A", "foo\n">>, <<"b", "B", "bar\n">>>>

\* C14  Section splitting example, as the code has it: the input yields
\* ("preamble","preamble","Pre\n"), ("a","A","foo\n"), ("b","B","bar\n") in
\* that order.  For every document with a heading: the sections that start
\* at a heading come in the order of their headings, the heading line is not
\* in the text of its section, and the section of the text before the first
\* heading is emitted exactly when that text is not blank.
C14_SectionExample ==
    (stage = "split") =>
        LET lines == splitlines(note.text)
            level == [i \in 1..Len(lines) |-> HeadingOf(lines[i]).level]
            target == IF 2 \in Range(level) THEN 2 ELSE SetMin(Range(level) \ {0})
            at == {i \in 1..Len(lines) : level[i] = target}
            before == {i \in 1..Len(lines) : \A h \in at : i < h}
            leading == \E i \in before : strip(lines[i]) # ""
            skip == IF leading THEN 1 ELSE 0
        IN  /\ (note.text = SectionExample) =>
                  doc_sections = <<<<"preamble", "preamble", "Pre\n">>,
                                   <<"a", "A", "foo\n">>, <<"b", "B", "bar\n">>>>
            /\ (Range(level) # {0} /\ lines # <<>>) =>
                  /\ Len(doc_sections) = Cardinality(at) + skip
                  /\ leading => /\ doc_sections[1][1] = "preamble"
                                /\ doc_sections[1][2] = "preamble"
                                /\ strip(doc_sections[1][3]) # ""
                  /\ \A h \in at :
                        LET sec == doc_sections[skip + Cardinality({j \in at : j <= h})]
                        IN  /\ sec[2] = strip(HeadingOf(lines[h]).title)
                            /\ \A line \in Range(splitlines(sec[3])) :
                                  HeadingOf(line).level # target

\* the example document has been split
C14_Witness ==
    /\ stage = "split"
    /\ note.text = SectionExample
    /\ Len(doc_sections) = 3

----------------------------------------------------------------------------
(* Properties of the embed-and-ingest loop *)

\* row i survives the diff: the run does not skip unchanged chunks, or the
\* collection the loop started from holds no record of its id with its
\* chunk_hash
Survives(i) ==
    LET cid == rows[i].metadata["chunk_id"] IN
    ~ /\ args.mode = "upsert" /\ args.skip_unchanged
      /\ cid \in DOMAIN LoopStart
      /\ Get(LoopStart[cid].metadata, "chunk_hash") = rows[i].metadata["chunk_hash"]
NonEmpty(s) == s # <<>>
\* one call per batch 1..j that has a surviving row, with the ids of its
\* surviving rows in the order of the chunk file
CallsThrough(j) ==
    SelectSeq([b \in 1..j |->
                  At(ids(rows), SelectSeq(Batches(rows, args)[b], Survives))],
              NonEmpty)

\* C15  Embed at most once, in order: wherever a run stands in its loop, the
\* embedding calls and the completed write calls so far are one call per
\* processed batch that has a surviving chunk, each over exactly the
\* surviving chunks of that batch in chunk-file order; a skipped chunk is in
\* no call and a batch with only skipped chunks has no call.  A run halted in
\* batch k has written nothing of batch k and has embedded it at most once.
C15_EmbedOnceInOrder ==
    Ingesting =>
        /\ writeLog = CallsThrough(k - 1)
        /\ (pc # "failed") => embedLog = CallsThrough(k - 1)
        /\ (pc = "failed") => embedLog \in {CallsThrough(k - 1), CallsThrough(k)}
        /\ (pc = "done") =>
              \A i \in 1..Len(rows) :
                  LET cid == rows[i].metadata["chunk_id"]
                      embedded == {j \in 1..Len(Flatten(embedLog)) :
                                      Flatten(embedLog)[j] = cid}
                      written == {j \in 1..Len(Flatten(writeLog)) :
                                     Flatten(writeLog)[j] = cid}
                  IN  /\ Cardinality(embedded) = (IF Survives(i) THEN 1 ELSE 0)
                      /\ Cardinality(written) = (IF Survives(i) THEN 1 ELSE 0)

\* a completed upsert run with skip_unchanged over two batches: one batch
\* skipped whole, the other embedded and written
C15_Witness ==
    /\ pc = "done"
    /\ args.mode = "upsert" /\ args.skip_unchanged
    /\ Len(Batches(rows, args)) = 2
    /\ Len(embedLog) = 1
    /\ Len(writeLog) = 1
    /\ \E i \in 1..Len(rows) : ~Survives(i)

EngineCreated(c) == c.exists /\ "embed_model" \in DOMAIN c.metadata

\* C17  Single embedding space per collection: whatever rebuild, append and
\* upsert runs, under whatever embed_model each, have gone against a
\* collection created by this engine, completed, rejected or halted, every
\* record it holds carries a vector of the model its metadata name.
C17_SingleEmbeddingSpace ==
    EngineCreated(coll) =>
        \A cid \in DOMAIN coll.records :
            coll.records[cid].embedding
                = Encode(coll.metadata["embed_model"], coll.records[cid].document)

\* a run under another embed_model has been rejected by a collection that
\* this engine created and filled
C17_Witness ==
    /\ pc = "rejected"
    /\ EngineCreated(coll)
    /\ DOMAIN coll.records # {}
    /\ coll.metadata["embed_model"] # args.embed_model
    /\ error.kind = "ValueError: Collection embed_model mismatch"

\* C18  Chunk ids are unique within a document, as the claim states it: the
\* anchors of the sections of a document are pairwise distinct, the
\* chunk_ids of its rows are pairwise distinct, and the rows of a section
\* carry the indexes 0, 1, ..., n - 1 in emission order.
C18_UniqueChunkIds ==
    (stage = "chunked") =>
        /\ \A i, j \in 1..Len(doc_sections) :
              doc_sections[i][1] = doc_sections[j][1] => i = j
        /\ \A i, j \in 1..Len(out_jsonl) :
              out_jsonl[i].metadata["chunk_id"] = out_jsonl[j].metadata["chunk_id"]
                  => i = j
        /\ \A s \in 1..Len(doc_parts) : \A j \in 1..Len(doc_parts[s]) :
              LET before == Len(Flatten(SubSeq(doc_parts, 1, s - 1)))
              IN  out_jsonl[before + j].metadata["chunk_index"] = ToString(j - 1)

\* C19  Stage hand-off, as the claim states it: a chunk file written by the
\* chunker, its chunk_ids pairwise distinct, is not rejected by the sync
\* engine's validation.
C19_StageHandOff ==
    (stage = "synced" /\ HasIds(rows) /\ ~HasDuplicateIds(rows)) =>
        /\ missing_meta(rows) = <<>>
        /\ pc # "rejected"

\* the runs of pieces a set of cuts makes: run g is pieces first[g]..last[g]
RunsOf(n, C) ==
    LET m == Cardinality(C)
        cut == [g \in 1..m |-> CHOOSE c \in C : Cardinality({d \in C : d < c}) = g - 1]
    IN  [g \in 1..(m + 1) |->
            [first |-> IF g = 1 THEN 1 ELSE cut[g - 1] + 1,
             last |-> IF g = m + 1 THEN n ELSE cut[g]]]

\* C20  Packing conserves sentences: the parts emitted for a paragraph longer
\* than max_chars are its sentence pieces cut into consecutive runs, one part
\* per run and in the order of the runs, each part the pieces of its run
\* joined with single spaces (links rewritten, as for every part); a piece
\* longer than max_chars is a run of its own, a run of two or more pieces is
\* at most max_chars long, and no part is empty.
C20_PackingConserves ==
    Packed =>
        \A sp \in LongParagraphs :
            LET pieces == PiecesOf(sp)
                parts == PartsOf(sp)
                n == Len(pieces)
            IN  \E C \in SUBSET (1..(n - 1)) :
                    LET runs == RunsOf(n, C) IN
                    /\ Len(parts) = Len(runs)
                    /\ \A g \in 1..Len(runs) :
                          LET raw == Joined(pieces, runs[g].first, runs[g].last)
                          IN  /\ parts[g] = Part(raw, sp[2])
                              /\ raw # ""
                              /\ Find(raw, "[[", 1) = 0 => parts[g].text = raw \o "\n"
                              /\ runs[g].last > runs[g].first
                                    => Len(raw) <= chunker.max_chars
                    /\ \A i \in 1..n :
                          Len(pieces[i]) > chunker.max_chars =>
                              \E g \in 1..Len(runs) :
                                  runs[g].first = i /\ runs[g].last = i

\* a paragraph packed into a chunk of two pieces and a chunk that is one
\* piece longer than max_chars
C20_Witness ==
    /\ Packed
    /\ \E sp \in LongParagraphs :
          /\ Len(PiecesOf(sp)) = 3
          /\ Len(PartsOf(sp)) = 2
          /\ \E i \in 1..3 : Len(PiecesOf(sp)[i]) > chunker.max_chars

----------------------------------------------------------------------------
(* Properties of the manifest, the frame and the dry run *)

\* the rows of the batch that upsert with --skip_unchanged skips: the
\* collection held them, with the same chunk_hash, when the run started
SkippedRows ==
    {i \in 1..Len(rows) : Unchanged(coll0.records, rows, <<i>>, i)}

\* C21  Manifest counts: a manifest exists only in a run that reached DONE,
\* never in a rejected, failed or dry run; its "chunks" is the number of rows
\* of the input and its "added" the number of records the write calls of the
\* run stored, which is "chunks" in rebuild, append and plain upsert and
\* "chunks" less the skipped rows in upsert with --skip_unchanged.
C21_ManifestCounts ==
    /\ manifest.written => (pc = "done" /\ ~args.dry_run /\ error = NoError)
    /\ pc = "done" =>
          /\ manifest.written
          /\ manifest.counts.chunks = Len(rows)
          /\ manifest.counts.added = Len(Flatten(writeLog))
          /\ Range(Flatten(writeLog)) \subseteq DOMAIN coll.records
          /\ manifest.counts.added =
                IF args.mode = "upsert" /\ args.skip_unchanged
                THEN Len(rows) - Cardinality(SkippedRows)
                ELSE Len(rows)

\* an upsert with --skip_unchanged that skipped one row and wrote another
C21_Witness ==
    /\ pc = "done"
    /\ args.mode = "upsert" /\ args.skip_unchanged
    /\ manifest.written
    /\ manifest.counts.chunks = 2
    /\ manifest.counts.added = 1

\* the lines of a document that lie between an opening and a closing
\* code-fence delimiter
FencedLines(md) ==
    LET lines == splitlines(md)
        Marker(i) == startswith(strip(lines[i]), FENCE)
        markers == {i \in 1..Len(lines) : Marker(i)}
        Before(i) == Cardinality({j \in markers : j < i})
    IN  {lines[i] : i \in {j \in 1..Len(lines) :
                              /\ ~Marker(j)
                              /\ Before(j) % 2 = 1
                              /\ \E c \in markers : c > j}}

\* C22  Code-fence content is preserved verbatim, as the claim states it:
\* every line between an opening and a closing fence delimiter of the source
\* document is a line of the text of some emitted chunk, unchanged.
C22_FenceVerbatim ==
    (stage = "chunked" /\ "raw" \in DOMAIN note) =>
        \A line \in FencedLines(note.raw) :
            \E r \in 1..Len(out_jsonl) :
                line \in Range(splitlines(out_jsonl[r].text))

\* the records the collection held when the run started whose chunk_id is
\* not in the batch of the run
OutsideBatch ==
    IF HasIds(rows) THEN DOMAIN coll0.records \ IdSet(rows)
    ELSE DOMAIN coll0.records

\* C23  Frame of append and upsert: at every point of an append or upsert
\* run, every record the collection held at the start of the run under a
\* chunk_id that is not in the batch is still there and is what it was;
\* a run that loses such a record is a rebuild.
C23_FrameOfAppendUpsert ==
    /\ (args.mode \in {"append", "upsert"} /\ pc # "idle") =>
          \A cid \in OutsideBatch :
              /\ cid \in DOMAIN coll.records
              /\ coll.records[cid] = coll0.records[cid]
    /\ (pc # "idle" /\ \E cid \in OutsideBatch : cid \notin DOMAIN coll.records)
          => args.mode = "rebuild"

\* a completed upsert run that overwrote a record of the batch and met a
\* record of a chunk that is no longer in the batch
C23_Witness ==
    /\ pc = "done"
    /\ args.mode = "upsert"
    /\ OutsideBatch # {}
    /\ \E cid \in IdSet(rows) \cap DOMAIN coll0.records :
          coll.records[cid] # coll0.records[cid]

\* the settings the fingerprint stored on a collection was computed from:
\* those of the run that created it
CreatorSettings(c) == c.metadata["settings_hash"][2]

\* the run opened the store: it is past validation and the dry-run return
OpenedStore == pc \in {"ensure", "diff", "batches", "done", "failed"}
                  \/ (pc = "rejected" /\ error.kind \in
                         {"ValueError: Collection embed_model mismatch",
                          "ValueError: Collection settings_hash mismatch",
                          "ValueError: Append mode found duplicate ids"})

\* C24  Collection metadata is write-once: an append or upsert run that
\* finds the collection leaves its metadata as they were; a run that creates
\* the collection, or a rebuild, stores its own embed_model and fingerprint;
\* and an append or upsert run that opens the store on a collection of this
\* engine with settings that differ in some fingerprinted field from those
\* of the run that created it never gets past the guard and ends rejected.
C24_MetadataWriteOnce ==
    /\ (args.mode \in {"append", "upsert"} /\ coll0.exists /\ pc # "idle") =>
          coll.metadata = coll0.metadata
    /\ (pc # "idle" /\ coll.metadata # coll0.metadata) =>
          /\ args.mode = "rebuild" \/ ~coll0.exists
          /\ coll.exists =>
                /\ coll.metadata["embed_model"] = args.embed_model
                /\ CreatorSettings(coll) = Settings(args)
    /\ (/\ args.mode \in {"append", "upsert"}
        /\ EngineCreated(coll0)
        /\ OpenedStore
        /\ \E f \in DOMAIN Settings(args) :
              CreatorSettings(coll0)[f] # Settings(args)[f]) =>
          /\ pc \in {"ensure", "rejected"}
          /\ coll = coll0
          /\ embedLog = <<>>

\* an upsert run with the model of the collection, rejected because its
\* batch size is not the one of the run that created the collection
C24_Witness ==
    /\ pc = "rejected"
    /\ error.kind = "ValueError: Collection settings_hash mismatch"
    /\ args.mode = "upsert"
    /\ EngineCreated(coll0)
    /\ coll0.metadata["embed_model"] = args.embed_model
    /\ CreatorSettings(coll0).mode = "upsert"
    /\ CreatorSettings(coll0).batch_size # args.batch_size
    /\ \A f \in DOMAIN Settings(args) \ {"batch_size"} :
          CreatorSettings(coll0)[f] = Settings(args)[f]

\* C25  Dry run has no effect on the store: a run with --dry_run, in every
\* mode and with --reset_db or without, is validated (it ends rejected
\* exactly when a row lacks a required field or two rows share a chunk_id,
\* and returns otherwise) and never gets further: the persist directory and
\* the collection stay what they were, no lookup, embedding or write call is
\* made and no manifest is written.
C25_DryRunNoEffect ==
    (args.dry_run /\ pc # "idle") =>
        /\ pc \in {"validate", "returned", "rejected"}
        /\ coll = coll0
        /\ lookups = 0
        /\ embedLog = <<>>
        /\ writeLog = <<>>
        /\ total = 0
        /\ ~manifest.written
        /\ pc = "rejected" =>
              \/ ~HasIds(rows)
              \/ missing_meta(rows) # <<>>
              \/ HasDuplicateIds(rows)
        /\ pc = "returned" =>
              /\ HasIds(rows)
              /\ missing_meta(rows) = <<>>
              /\ ~HasDuplicateIds(rows)

\* a dry run of a rebuild with --reset_db over a collection that holds
\* records, returned after validation
C25_Witness ==
    /\ args.dry_run /\ args.reset_db /\ args.mode = "rebuild"
    /\ pc = "returned"
    /\ rows # <<>>
    /\ coll.exists
    /\ DOMAIN coll.records # {}

====
